---- MODULE Spec2Model ----
(***************************************************************************)
(* Model of livekit_pipeline/src/pipeline.py: the job entrypoint (metadata *)
(* normalisation, backend URL resolution, session orchestration, welcome   *)
(* speech) and the transcript relay.                                       *)
(*                                                                         *)
(* Python text is a TLA+ string; Len, SubSeq and \o act on it character by *)
(* character.  Python values are records [t |-> type name, v |-> payload]. *)
(***************************************************************************)
EXTENDS Integers, Sequences, FiniteSets, TLC

(***************************************************************************)
(* Bounds of the model.                                                    *)
(***************************************************************************)
\* Longest metadata text enumerated exhaustively over Alphabet.
MaxLen == 3
\* Most participant_connected events dispatched during one job.
MaxJoins == 2
\* Most invocations of send_transcript_to_app.
MaxRelayCalls == 2
\* Most jobs one worker process runs.
MaxJobs == 2

(***************************************************************************)
(* Python values.                                                          *)
(***************************************************************************)
None == [t |-> "None", v |-> ""]
PyStrVal(s) == [t |-> "str", v |-> s]
PyInt(n) == [t |-> "int", v |-> n]
PyBool(b) == [t |-> "bool", v |-> b]
PyList(items) == [t |-> "list", v |-> items]
\* A dict is its items in insertion order, keys unique: <<[k |-> key, v |-> value], ...>>.
PyDict(items) == [t |-> "dict", v |-> items]

\* s[i:i+1] with a 1-based i: "" beyond the end of the text.
Ch(s, i) == IF i >= 1 /\ i <= Len(s) THEN SubSeq(s, i, i) ELSE ""

\* s[i:j+1] with 1-based inclusive bounds, cut at the end of the text.
Slice(s, i, j) == IF i > Len(s) THEN "" ELSE SubSeq(s, i, IF j > Len(s) THEN Len(s) ELSE j)

\* str.startswith
StartsWith(s, prefix) == Slice(s, 1, Len(prefix)) = prefix

\* str.replace(old, new) for a one-character old.
RECURSIVE ReplaceFrom(_, _, _, _)
ReplaceFrom(s, i, old, new) ==
    IF i > Len(s) THEN ""
    ELSE (IF Ch(s, i) = old THEN new ELSE Ch(s, i)) \o ReplaceFrom(s, i + 1, old, new)

Replace(s, old, new) == ReplaceFrom(s, 1, old, new)

\* dict item assignment: a present key keeps its place and takes the new value.
DictSet(items, key, val) ==
    IF \E i \in 1..Len(items) : items[i].k = key
    THEN [i \in 1..Len(items) |-> IF items[i].k = key THEN [k |-> key, v |-> val] ELSE items[i]]
    ELSE Append(items, [k |-> key, v |-> val])

\* dict.get(key): the value, or None when the key is absent.
DictGet(d, key) ==
    IF \E i \in 1..Len(d.v) : d.v[i].k = key
    THEN d.v[CHOOSE i \in 1..Len(d.v) : d.v[i].k = key].v
    ELSE None

(***************************************************************************)
(* json.loads, as the standard decoder scans: a result is                  *)
(* [ok, val, end], end the 1-based index after the value.  ok = FALSE is   *)
(* json.JSONDecodeError.  Floats, NaN/Infinity and \u escapes are outside  *)
(* the texts the model draws (no ".", "e", "E", "N", "I", "\" in them).    *)
(***************************************************************************)
Whitespace == {" ", "\t", "\n", "\r"}
ControlChars == {"\t", "\n", "\r", "\f"}
Digits == {"0", "1", "2", "3", "4", "5", "6", "7", "8", "9"}

DigitVal(c) ==
    CASE c = "0" -> 0 [] c = "1" -> 1 [] c = "2" -> 2 [] c = "3" -> 3 [] c = "4" -> 4
      [] c = "5" -> 5 [] c = "6" -> 6 [] c = "7" -> 7 [] c = "8" -> 8 [] c = "9" -> 9

DecodeError == [ok |-> FALSE, val |-> None, end |-> 0]
Decoded(val, end) == [ok |-> TRUE, val |-> val, end |-> end]

RECURSIVE SkipWs(_, _)
SkipWs(s, i) == IF Ch(s, i) \in Whitespace THEN SkipWs(s, i + 1) ELSE i

\* Simple escapes of py_scanstring: the character after the backslash.
Unescape(c) ==
    CASE c = "\"" -> "\"" [] c = "\\" -> "\\" [] c = "/" -> "/"
      [] c = "n" -> "\n" [] c = "r" -> "\r" [] c = "t" -> "\t" [] c = "f" -> "\f"
      [] OTHER -> ""

\* py_scanstring (strict): i is the index after the opening quote.
RECURSIVE ScanString(_, _, _)
ScanString(s, i, acc) ==
    LET c == Ch(s, i) IN
    IF c = "" THEN DecodeError
    ELSE IF c = "\"" THEN Decoded(PyStrVal(acc), i + 1)
    ELSE IF c \in ControlChars THEN DecodeError
    ELSE IF c = "\\"
         THEN IF Unescape(Ch(s, i + 1)) = "" THEN DecodeError
              ELSE ScanString(s, i + 2, acc \o Unescape(Ch(s, i + 1)))
    ELSE ScanString(s, i + 1, acc \o c)

RECURSIVE ScanDigits(_, _, _)
ScanDigits(s, i, acc) ==
    IF Ch(s, i) \in Digits THEN ScanDigits(s, i + 1, 10 * acc + DigitVal(Ch(s, i)))
    ELSE [val |-> acc, end |-> i]

\* NUMBER_RE's integer part: -?(0|[1-9][0-9]*)
ScanNumber(s, i) ==
    LET neg == Ch(s, i) = "-"
        j == IF neg THEN i + 1 ELSE i
        d == Ch(s, j)
    IN  IF d = "0" THEN Decoded(PyInt(0), j + 1)
        ELSE IF d \in Digits
             THEN LET r == ScanDigits(s, j, 0)
                  IN  Decoded(PyInt(IF neg THEN 0 - r.val ELSE r.val), r.end)
        ELSE DecodeError

RECURSIVE ScanOnce(_, _), ObjectLoop(_, _, _), ArrayLoop(_, _, _)

\* JSONObject: i is the index after "{".
JSONObject(s, i) ==
    LET j == SkipWs(s, i)
        nextchar == Ch(s, j)
    IN  IF nextchar = "}" THEN Decoded(PyDict(<<>>), j + 1)
        ELSE IF nextchar # "\"" THEN DecodeError
        ELSE ObjectLoop(s, j + 1, <<>>)

\* JSONObject's loop: i is the index after a key's opening quote.
ObjectLoop(s, i, pairs) ==
    LET key == ScanString(s, i, "") IN
    IF ~key.ok THEN DecodeError ELSE
    LET colon == SkipWs(s, key.end) IN
    IF Ch(s, colon) # ":" THEN DecodeError ELSE
    LET value == ScanOnce(s, SkipWs(s, colon + 1)) IN
    IF ~value.ok THEN DecodeError ELSE
    LET items == DictSet(pairs, key.val.v, value.val)
        j == SkipWs(s, value.end)
        nextchar == Ch(s, j)
    IN  IF nextchar = "}" THEN Decoded(PyDict(items), j + 1)
        ELSE IF nextchar # "," THEN DecodeError
        ELSE LET q == SkipWs(s, j + 1)
             IN  IF Ch(s, q) # "\"" THEN DecodeError
                 ELSE ObjectLoop(s, q + 1, items)

\* JSONArray: i is the index after "[".
JSONArray(s, i) ==
    LET j == SkipWs(s, i)
    IN  IF Ch(s, j) = "]" THEN Decoded(PyList(<<>>), j + 1)
        ELSE ArrayLoop(s, j, <<>>)

\* JSONArray's loop: i is the index of the next element.
ArrayLoop(s, i, values) ==
    LET value == ScanOnce(s, i) IN
    IF ~value.ok THEN DecodeError ELSE
    LET items == Append(values, value.val)
        j == SkipWs(s, value.end)
        nextchar == Ch(s, j)
    IN  IF nextchar = "]" THEN Decoded(PyList(items), j + 1)
        ELSE IF nextchar # "," THEN DecodeError
        ELSE ArrayLoop(s, SkipWs(s, j + 1), items)

\* scanner.py_make_scanner's _scan_once
ScanOnce(s, i) ==
    LET nextchar == Ch(s, i) IN
    IF nextchar = "" THEN DecodeError
    ELSE IF nextchar = "\"" THEN ScanString(s, i + 1, "")
    ELSE IF nextchar = "{" THEN JSONObject(s, i + 1)
    ELSE IF nextchar = "[" THEN JSONArray(s, i + 1)
    ELSE IF nextchar = "n" /\ Slice(s, i, i + 3) = "null" THEN Decoded(None, i + 4)
    ELSE IF nextchar = "t" /\ Slice(s, i, i + 3) = "true" THEN Decoded(PyBool(TRUE), i + 4)
    ELSE IF nextchar = "f" /\ Slice(s, i, i + 4) = "false" THEN Decoded(PyBool(FALSE), i + 5)
    ELSE ScanNumber(s, i)

\* json.loads(s): one value, whitespace around it, nothing after it.
JsonLoads(s) ==
    LET r == ScanOnce(s, SkipWs(s, 1)) IN
    IF ~r.ok THEN DecodeError
    ELSE IF SkipWs(s, r.end) # Len(s) + 1 THEN DecodeError
    ELSE r

(***************************************************************************)
(* str() and repr() of a Python value, as an f-string renders it.          *)
(***************************************************************************)
DigitChar(d) ==
    CASE d = 0 -> "0" [] d = 1 -> "1" [] d = 2 -> "2" [] d = 3 -> "3" [] d = 4 -> "4"
      [] d = 5 -> "5" [] d = 6 -> "6" [] d = 7 -> "7" [] d = 8 -> "8" [] d = 9 -> "9"

RECURSIVE NatStr(_)
NatStr(n) == IF n < 10 THEN DigitChar(n) ELSE NatStr(n \div 10) \o DigitChar(n % 10)

IntStr(n) == IF n < 0 THEN "-" \o NatStr(0 - n) ELSE NatStr(n)

Contains(s, c) == \E i \in 1..Len(s) : Ch(s, i) = c

\* repr of one character of a str inside the quote character q.
ReprChar(c, q) ==
    CASE c = "\\" -> "\\\\" [] c = "\n" -> "\\n" [] c = "\r" -> "\\r" [] c = "\t" -> "\\t"
      [] c = "\f" -> "\\x0c" [] c = q -> "\\" \o q [] OTHER -> c

RECURSIVE ReprChars(_, _, _)
ReprChars(s, i, q) ==
    IF i > Len(s) THEN "" ELSE ReprChar(Ch(s, i), q) \o ReprChars(s, i + 1, q)

\* repr(str): single quotes, double quotes when the text holds ' and no ".
StrRepr(s) ==
    LET q == IF Contains(s, "'") /\ ~Contains(s, "\"") THEN "\"" ELSE "'"
    IN  q \o ReprChars(s, 1, q) \o q

RECURSIVE PyRepr(_), ReprItems(_, _), ReprPairs(_, _)
PyRepr(val) ==
    CASE val.t = "None" -> "None"
      [] val.t = "bool" -> (IF val.v THEN "True" ELSE "False")
      [] val.t = "int" -> IntStr(val.v)
      [] val.t = "str" -> StrRepr(val.v)
      [] val.t = "list" -> "[" \o ReprItems(val.v, 1) \o "]"
      [] val.t = "dict" -> "{" \o ReprPairs(val.v, 1) \o "}"

ReprItems(items, i) ==
    IF i > Len(items) THEN ""
    ELSE PyRepr(items[i]) \o (IF i < Len(items) THEN ", " ELSE "") \o ReprItems(items, i + 1)

ReprPairs(items, i) ==
    IF i > Len(items) THEN ""
    ELSE StrRepr(items[i].k) \o ": " \o PyRepr(items[i].v)
         \o (IF i < Len(items) THEN ", " ELSE "") \o ReprPairs(items, i + 1)

\* str(val): the text itself for a str, repr for every other type.
PyStr(val) == IF val.t = "str" THEN val.v ELSE PyRepr(val)

(***************************************************************************)
(* Inputs the model draws.                                                 *)
(***************************************************************************)
\* Characters of the exhaustively enumerated metadata texts.
Alphabet == <<"{", "}", "\"", "'", ":", ",", "1", "a", "[", "]">>

\* Every text over Alphabet of length n or less.
RECURSIVE Texts(_)
Texts(n) ==
    IF n = 0 THEN {""}
    ELSE LET shorter == Texts(n - 1)
         IN  shorter \cup {p \o Alphabet[i] : p \in {q \in shorter : Len(q) = n - 1},
                                              i \in 1..Len(Alphabet)}

ValidObjectText == "{\"agent_name\": \"x\", \"agent_id\": \"y\", \"run_id\": \"z\"}"
SingleQuotedText == "{'agent_name': 'x', 'agent_id': 'y', 'run_id': 'z'}"
UnparseableText == "not json at all"
ApostropheText == "{\"agent_name\": \"o'x\"}"

\* Longer metadata texts: objects, repairable objects, other JSON values, garbage.
SampleTexts ==
    {ValidObjectText, SingleQuotedText, UnparseableText, ApostropheText,
     "{\"agent_name\": null, \"agent_id\": 7, \"run_id\": [1]}",
     "{'agent_id': 'y', 'agent_id': 'w'}", " {} ", "[1, 2]", "null", "true", "'x'", "12"}

\* Metadata that arrives as a mapping already.
SampleMappings ==
    {PyDict(<<>>),
     PyDict(<<[k |-> "agent_name", v |-> PyStrVal("x")], [k |-> "agent_id", v |-> PyStrVal("y")],
              [k |-> "run_id", v |-> PyStrVal("z")]>>),
     PyDict(<<[k |-> "agent_id", v |-> None], [k |-> "other", v |-> PyInt(1)]>>)}

\* ctx.job.metadata of the exhaustive check of the entrypoint's first segment.
AllMetadata == {PyStrVal(s) : s \in Texts(MaxLen) \cup SampleTexts} \cup SampleMappings

\* ctx.job.metadata of the orchestration runs.
JobMetadata == {PyStrVal(ValidObjectText), PyStrVal(UnparseableText), PyStrVal("[1, 2]")}

\* os.environ.get("RESTACK_ENGINE_API_ADDRESS"): None when unset.
AllOverrides ==
    {None, PyStrVal(""), PyStrVal("api.example.com"), PyStrVal("https://api.example.com"),
     PyStrVal("http://api.example.com")}

JobOverrides == {None, PyStrVal("api.example.com")}

\* participant.identity of the participants that may be in the room.
Identities == {"agent-42", "transcript-listener", "user-1"}

\* Outcomes of session.say: the request is accepted, or it raises.
SayOutcomes == {"ok", "fail"}

(***************************************************************************)
(* State.                                                                  *)
(***************************************************************************)
VARIABLES
    metadata,             \* ctx.job.metadata
    engine_api_address,   \* os.environ.get("RESTACK_ENGINE_API_ADDRESS")
    metadata_obj, agent_name, agent_id, run_id,
    agent_backend_host, agent_url,
    pc,                   \* where entrypoint is: the await it is suspended at
    exc,                  \* the exception entrypoint ended with, "" for none
    listening,            \* on_participant_connected is registered on the room
    session,              \* entrypoint's local: "unbound", "created", "running"
    waitFuture,           \* result of ctx.wait_for_participant(), "" while pending
    participant,          \* identity of the first participant, "" before
    joinLog,              \* one record per invocation of on_participant_connected
    tasks,                \* the handle_new_participant tasks created
    says,                 \* the session.say requests made
    app_url_env,          \* os.environ.get("FASTHTML_APP_URL")
    relays,               \* the invocations of send_transcript_to_app
    posts,                \* the POST requests issued
    steps,                \* the steps entrypoint has completed in this job, in order
    userdata,             \* proc.userdata["vad"], "unset" before prewarm
    vadLoaded,            \* what silero.VAD.load() returned in prewarm, "unset" before
    sessionVads,          \* the vad argument of every AgentSession constructed
    jobs,                 \* the jobs the worker process has been given
    environ,              \* os.environ at module load, for the required variables
    envChecked,           \* validate_envs has returned
    warnings              \* the variables validate_envs warned about, in order

jobVars == <<metadata, engine_api_address, metadata_obj, agent_name, agent_id, run_id,
             agent_backend_host, agent_url, pc, exc>>
roomVars == <<listening, session, waitFuture, participant, joinLog, tasks, says>>
relayVars == <<app_url_env, relays, posts>>
procVars == <<userdata, vadLoaded, jobs, environ, envChecked, warnings>>
vars == <<jobVars, roomVars, relayVars, steps, sessionVads, procVars>>

\* A local that no assignment has reached yet.
Unbound == [t |-> "unbound", v |-> ""]

(***************************************************************************)
(* entrypoint, lines 49-89: metadata, identifiers, backend URL.            *)
(***************************************************************************)
\* NormalizeMetadata with the quote repair applied before the first parse.
NormalizeRepairFirst(md) ==
    IF md.t = "str"
    THEN LET repaired == JsonLoads(Replace(md.v, "'", "\""))
         IN  IF repaired.ok THEN repaired.val ELSE PyDict(<<>>)
    ELSE md

\* Lines 53-66: the value bound to metadata_obj.
NormalizeMetadata(md) ==
    IF md.t = "str"
    THEN LET strict == JsonLoads(md.v)
         IN  IF strict.ok THEN strict.val
             ELSE LET normalized == Replace(md.v, "'", "\"")
                      repaired == JsonLoads(normalized)
                  IN  IF repaired.ok THEN repaired.val ELSE PyDict(<<>>)
    ELSE md

\* Lines 70-72: only a dict has .get; any other type raises AttributeError.
HasGet(val) == val.t = "dict"

\* BackendHost testing for the prefix "http" in place of "https://".
BackendHostAnyHttp(address) ==
    IF address = None \/ address.v = "" THEN "http://localhost:9233"
    ELSE IF ~StartsWith(address.v, "http") THEN "https://" \o address.v
    ELSE address.v

\* Lines 75-81: agent_backend_host.
BackendHost(address) ==
    IF address = None \/ address.v = "" THEN "http://localhost:9233"
    ELSE IF ~StartsWith(address.v, "https://") THEN "https://" \o address.v
    ELSE address.v

\* Line 85: agent_url.
AgentUrl(host, name, id, run) ==
    host \o "/stream/agents/" \o PyStr(name) \o "/" \o PyStr(id) \o "/" \o PyStr(run)

\* Lines 49-89: up to the suspension at ctx.connect, or the exception raised on the way.
EntryStart ==
    /\ pc = "start"
    /\ LET obj == NormalizeMetadata(metadata)
           host == BackendHost(engine_api_address)
       IN  /\ metadata_obj' = obj
           /\ IF HasGet(obj)
              THEN /\ agent_name' = DictGet(obj, "agent_name")
                   /\ agent_id' = DictGet(obj, "agent_id")
                   /\ run_id' = DictGet(obj, "run_id")
                   /\ agent_backend_host' = host
                   /\ agent_url' = AgentUrl(host, DictGet(obj, "agent_name"),
                                            DictGet(obj, "agent_id"), DictGet(obj, "run_id"))
                   /\ pc' = "connecting"
                   /\ exc' = ""
              ELSE /\ pc' = "raised"
                   /\ exc' = "AttributeError"
                   /\ UNCHANGED <<agent_name, agent_id, run_id, agent_backend_host, agent_url>>
    /\ UNCHANGED <<metadata, engine_api_address, roomVars, relayVars, steps, sessionVads,
                   procVars>>

(***************************************************************************)
(* entrypoint, lines 89-154: the room, the session, the welcome.           *)
(* ctx.connect and session.start are taken to complete; session.say may    *)
(* raise.  Each action is one run of the event loop between suspensions.   *)
(***************************************************************************)
\* Line 110: asyncio.sleep(2).
WelcomeDelay == 2

\* Lines 97-98: the identities the listener skips.
IsAgentOrSystem(identity) ==
    StartsWith(identity, "agent-") \/ identity = "transcript-listener"

\* Line 153: whether entrypoint welcomes the first participant.
WelcomesFirst(identity) == ~StartsWith(identity, "agent-")

\* OnParticipantConnected running the delayed welcome inside the listener.
OnParticipantConnectedBlocking(identity, sess, ts) ==
    IF IsAgentOrSystem(identity) THEN [tasks |-> ts, error |-> ""]
    ELSE IF sess = "unbound" THEN [tasks |-> ts, error |-> "NameError"]
    ELSE [tasks |-> Append(ts, [identity |-> identity, state |-> "done",
                                elapsed |-> WelcomeDelay, said |-> 1]),
          error |-> ""]

\* OnParticipantConnected reading the session only when the task runs, so that a
\* join before line 143 schedules its task too.
OnParticipantConnectedLate(identity, sess, ts) ==
    IF IsAgentOrSystem(identity) THEN [tasks |-> ts, error |-> ""]
    ELSE [tasks |-> Append(ts, [identity |-> identity, state |-> "created", elapsed |-> 0,
                                said |-> 0]),
          error |-> ""]

\* Lines 93-105: the listener's body against the closure's session and the tasks
\* created so far.  Reading session before line 143 has bound it raises NameError,
\* before the task is created.  A task is "created" by asyncio.create_task,
\* "sleeping" once the loop has run it up to asyncio.sleep, then "done" or "failed";
\* elapsed counts the time units of its sleep, said its session.say requests.
OnParticipantConnected(identity, sess, ts) ==
    IF IsAgentOrSystem(identity) THEN [tasks |-> ts, error |-> ""]
    ELSE IF sess = "unbound" THEN [tasks |-> ts, error |-> "NameError"]
    ELSE [tasks |-> Append(ts, [identity |-> identity, state |-> "created", elapsed |-> 0,
                                said |-> 0]),
          error |-> ""]

\* SendWelcomeMessage without its try/except.
SendWelcomeMessageNoCatch(outcome) == [raised |-> outcome = "fail", logged |-> FALSE]

\* Lines 115-125: session.say inside try/except Exception.
SendWelcomeMessage(outcome) == [raised |-> FALSE, logged |-> outcome = "fail"]

\* One session.say request: who made it, the session's state then, its outcome.
SayRecord(by, sess, outcome) == [by |-> by, session |-> sess, failed |-> outcome = "fail"]

\* SessionVad loading a model of its own for the session.
SessionVadFresh(slot) == "vad-fresh"

\* Line 144: the vad argument of AgentSession, read from the process's slot.
SessionVad(slot) == slot

\* ParticipantReady for a wait that is not awaited.
ParticipantReadyAlways(future) == TRUE

\* Line 128: wait_for_participant returns once its future holds a participant.
ParticipantReady(future) == future # ""

\* TasksAtReturn cancelling the welcome tasks still pending.
TasksCancelledAtReturn(ts) ==
    [i \in 1..Len(ts) |->
        IF ts[i].state \in {"created", "sleeping"} THEN [ts[i] EXCEPT !.state = "cancelled"]
        ELSE ts[i]]

\* Lines 105 and 150-154: entrypoint keeps no handle of the tasks it caused and
\* returns without cancelling any.
TasksAtReturn(ts) == ts

\* Lines 128-150, from the return of wait_for_participant to the await of
\* session.start: the steps completed.
ConstructSteps == <<"participant", "construct">>

\* Lines 89-128 (and 129-150 when a participant is already in the room): connect
\* completes, the listener is registered, wait_for_participant is awaited.
ConnectDone ==
    /\ pc = "connecting"
    /\ listening' = TRUE
    /\ \E first \in Identities \cup {""} :
          IF first = ""
          THEN /\ pc' = "waiting"
               /\ steps' = Append(steps, "connect_audio_only")
               /\ UNCHANGED <<session, waitFuture, participant, sessionVads>>
          ELSE /\ waitFuture' = first
               /\ participant' = first
               /\ session' = "created"
               /\ sessionVads' = Append(sessionVads, [job |-> jobs, vad |-> SessionVad(userdata)])
               /\ steps' = Append(steps, "connect_audio_only") \o ConstructSteps
               /\ pc' = "starting"
    /\ UNCHANGED <<metadata, engine_api_address, metadata_obj, agent_name, agent_id, run_id,
                   agent_backend_host, agent_url, exc, joinLog, tasks, says, relayVars,
                   procVars>>

\* The room emits participant_connected: the listener of line 92 runs, then the
\* pending wait_for_participant takes the participant.
JoinEvent ==
    /\ listening
    /\ Len(joinLog) < MaxJoins
    /\ \E identity \in Identities :
          LET r == OnParticipantConnected(identity, session, tasks)
          IN  /\ tasks' = r.tasks
              /\ joinLog' = Append(joinLog, [identity |-> identity,
                                             scheduled |-> Len(r.tasks) - Len(tasks),
                                             error |-> r.error,
                                             session |-> session,
                                             first |-> pc = "waiting" /\ waitFuture = ""])
              /\ waitFuture' = IF pc = "waiting" /\ waitFuture = "" THEN identity
                               ELSE waitFuture
    /\ UNCHANGED <<jobVars, listening, session, participant, says, relayVars, steps,
                   sessionVads, procVars>>

\* Lines 128-150: wait_for_participant returns; agent and session are constructed;
\* session.start is awaited.
WaitDone ==
    /\ pc = "waiting"
    /\ ParticipantReady(waitFuture)
    /\ participant' = waitFuture
    /\ session' = "created"
    /\ sessionVads' = Append(sessionVads, [job |-> jobs, vad |-> SessionVad(userdata)])
    /\ steps' = steps \o ConstructSteps
    /\ pc' = "starting"
    /\ UNCHANGED <<metadata, engine_api_address, metadata_obj, agent_name, agent_id, run_id,
                   agent_backend_host, agent_url, exc, listening, waitFuture, joinLog, tasks,
                   says, relayVars, procVars>>

\* Lines 150-154: session.start completes; the first participant is welcomed.
StartDone ==
    /\ pc = "starting"
    /\ session' = "running"
    /\ steps' = steps \o <<"start", "welcome_decision">>
    /\ tasks' = TasksAtReturn(tasks)
    /\ IF WelcomesFirst(participant)
       THEN \E outcome \in SayOutcomes :
               /\ says' = Append(says, SayRecord("entrypoint", "running", outcome))
               /\ IF SendWelcomeMessage(outcome).raised
                  THEN pc' = "raised" /\ exc' = "SayError"
                  ELSE pc' = "done" /\ exc' = exc
       ELSE /\ pc' = "done"
            /\ UNCHANGED <<says, exc>>
    /\ UNCHANGED <<metadata, engine_api_address, metadata_obj, agent_name, agent_id, run_id,
                   agent_backend_host, agent_url, listening, waitFuture, participant, joinLog,
                   relayVars, sessionVads, procVars>>

\* One time unit passes for every sleeping welcome task.
Tick ==
    /\ \E i \in 1..Len(tasks) : tasks[i].state = "sleeping" /\ tasks[i].elapsed < WelcomeDelay
    /\ tasks' = [i \in 1..Len(tasks) |->
                    IF tasks[i].state = "sleeping" /\ tasks[i].elapsed < WelcomeDelay
                    THEN [tasks[i] EXCEPT !.elapsed = @ + 1]
                    ELSE tasks[i]]
    /\ UNCHANGED <<jobVars, listening, session, waitFuture, participant, joinLog, says, relayVars,
                   steps, sessionVads, procVars>>

\* Lines 107-110: the event loop runs a created task up to its asyncio.sleep(2).
TaskStart ==
    \E i \in 1..Len(tasks) :
        /\ tasks[i].state = "created"
        /\ tasks' = [tasks EXCEPT ![i].state = "sleeping"]
        /\ UNCHANGED <<jobVars, listening, session, waitFuture, participant, joinLog, says,
                       relayVars, steps, sessionVads, procVars>>

\* SleepOver for a task that does not await its sleep.
SleepOverAtOnce(task) == TRUE

\* Line 110: asyncio.sleep(2) returns no earlier than 2 units after it was awaited.
SleepOver(task) == task.elapsed >= WelcomeDelay

\* Lines 107-113: a task's sleep is over; it calls send_welcome_message and ends.
TaskWake ==
    \E i \in 1..Len(tasks), outcome \in SayOutcomes :
        /\ tasks[i].state = "sleeping"
        /\ SleepOver(tasks[i])
        /\ says' = Append(says, SayRecord("task", session, outcome))
        /\ tasks' = [tasks EXCEPT ![i].state =
                        IF SendWelcomeMessage(outcome).raised THEN "failed" ELSE "done",
                                  ![i].said = @ + 1]
        /\ UNCHANGED <<jobVars, listening, session, waitFuture, participant, joinLog, relayVars,
                       steps, sessionVads, procVars>>

(***************************************************************************)
(* send_transcript_to_app, lines 157-181.  Nothing in pipeline.py calls    *)
(* it; its caller is outside the file.                                     *)
(***************************************************************************)
\* os.environ.get("FASTHTML_APP_URL"): None when unset.
AppUrlEnvs == {None, PyStrVal(""), PyStrVal("http://app.example:8000")}
Speakers == {"user", "agent"}
TranscriptTexts == {"", "hello"}
\* What client.post ends with: a response of either kind, or an httpx exception.
PostOutcomes == {"status_2xx", "status_5xx", "connect_error", "timeout"}

\* Line 160: os.environ.get with a default.
AppUrl(env) == IF env = None THEN "http://localhost:5001" ELSE env.v

\* Lines 167-175: the requests one invocation issues.
RelayRequests(env, speaker, text) ==
    <<[method |-> "POST", url |-> AppUrl(env) \o "/api/transcript",
       speaker |-> speaker, text |-> text]>>

\* The httpx exceptions among PostOutcomes.
PostFailures == {"connect_error", "timeout"}

\* RelayEnd without its try/except.
RelayEndNoCatch(env, speaker, text, outcome) ==
    IF outcome \in PostFailures
    THEN [state |-> "raised", printed |-> "", requests |-> <<>>]
    ELSE [state |-> "returned", printed |-> "response", requests |-> <<>>]

\* RelayEnd posting once more after a failed request.
RelayEndRetry(env, speaker, text, outcome) ==
    IF outcome \in PostFailures
    THEN [state |-> "returned", printed |-> "error",
          requests |-> RelayRequests(env, speaker, text)]
    ELSE [state |-> "returned", printed |-> "response", requests |-> <<>>]

\* Lines 165-181: how the invocation ends once client.post has ended: what it
\* printed and the further requests it issued (none).
RelayEnd(env, speaker, text, outcome) ==
    IF outcome \in PostFailures
    THEN [state |-> "returned", printed |-> "error", requests |-> <<>>]
    ELSE [state |-> "returned", printed |-> "response", requests |-> <<>>]

\* The requests of invocation number call, as entries of posts.
PostsOf(call, requests) ==
    [j \in 1..Len(requests) |-> [call |-> call, request |-> requests[j]]]

\* Lines 157-175: an invocation runs up to its suspension in client.post.
RelayCall ==
    /\ Len(relays) < MaxRelayCalls
    /\ \E speaker \in Speakers, text \in TranscriptTexts :
          /\ relays' = Append(relays, [speaker |-> speaker, text |-> text,
                                       state |-> "posting", outcome |-> ""])
          /\ posts' = posts \o PostsOf(Len(relays) + 1,
                                       RelayRequests(app_url_env, speaker, text))
    /\ UNCHANGED <<jobVars, roomVars, app_url_env, steps, sessionVads, procVars>>

\* Lines 175-181: client.post ends; the invocation prints and returns.
RelayResponse ==
    \E i \in 1..Len(relays), outcome \in PostOutcomes :
        /\ relays[i].state = "posting"
        /\ LET r == RelayEnd(app_url_env, relays[i].speaker, relays[i].text, outcome)
           IN  /\ relays' = [relays EXCEPT ![i].state = r.state, ![i].outcome = outcome]
               /\ posts' = posts \o PostsOf(i, r.requests)
        /\ UNCHANGED <<jobVars, roomVars, app_url_env, steps, sessionVads, procVars>>

(***************************************************************************)
(* The worker process: validate_envs at module load (lines 27-41), prewarm *)
(* (lines 43-46), then the jobs the framework hands to entrypoint (lines   *)
(* 184-191).  The framework calls prewarm once, before the first job.      *)
(***************************************************************************)
\* Lines 29-35: the keys of required_envs, in the order the loop visits them.
RequiredEnvs ==
    <<"LIVEKIT_URL", "LIVEKIT_API_KEY", "LIVEKIT_API_SECRET", "DEEPGRAM_API_KEY",
      "ELEVEN_API_KEY">>

RequiredEnvSet == {RequiredEnvs[i] : i \in 1..Len(RequiredEnvs)}

\* os.environ.get(key): None when unset, else the text, which may be empty.
EnvValues == {None, PyStrVal(""), PyStrVal("value")}

\* The environment with every required variable set.
FullEnviron == [k \in RequiredEnvSet |-> PyStrVal("value")]

\* EnvMissing taking only an unset variable as missing.
EnvMissingUnsetOnly(value) == value = None

\* Line 37: not os.environ.get(key).
EnvMissing(value) == value = None \/ value.v = ""

\* Lines 36-38: the keys logger.warning is called with.
ValidateWarnings(env) == SelectSeq(RequiredEnvs, LAMBDA k : EnvMissing(env[k]))

\* Lines 27-41: validate_envs runs at module load and returns.
ValidateEnvs ==
    /\ ~envChecked
    /\ warnings' = ValidateWarnings(environ)
    /\ envChecked' = TRUE
    /\ UNCHANGED <<jobVars, roomVars, relayVars, steps, sessionVads, userdata, vadLoaded,
                   jobs, environ>>

\* What silero.VAD.load() may return.
VadModels == {"vad-A", "vad-B"}

\* Lines 43-46: prewarm stores the loaded model in the process's slot.
Prewarm ==
    /\ envChecked
    /\ userdata = "unset"
    /\ \E model \in VadModels :
          /\ userdata' = model
          /\ vadLoaded' = model
    /\ UNCHANGED <<jobVars, roomVars, relayVars, steps, sessionVads, jobs, environ,
                   envChecked, warnings>>

\* The state of a job's locals and room before entrypoint runs.
JobReset(md, position) ==
    /\ metadata' = md
    /\ metadata_obj' = Unbound /\ agent_name' = Unbound /\ agent_id' = Unbound
    /\ run_id' = Unbound
    /\ agent_backend_host' = "" /\ agent_url' = ""
    /\ pc' = position /\ exc' = ""
    /\ listening' = FALSE /\ session' = "unbound" /\ waitFuture' = "" /\ participant' = ""
    /\ joinLog' = <<>> /\ tasks' = <<>> /\ says' = <<>>
    /\ steps' = <<>>

\* Lines 184-191: the prewarmed process is given a job (a new JobContext and room);
\* the welcome tasks of an earlier job are left out of the state.
JobStart ==
    /\ userdata # "unset"
    /\ pc \in {"idle", "done", "raised"}
    /\ jobs < MaxJobs
    /\ jobs' = jobs + 1
    /\ JobReset(PyStrVal(ValidObjectText), "start")
    /\ UNCHANGED <<engine_api_address, relayVars, sessionVads, userdata, vadLoaded, environ,
                   envChecked, warnings>>

(***************************************************************************)
(* Specifications.                                                         *)
(***************************************************************************)
\* A loaded, prewarmed process that has been given its first job.
Loaded ==
    /\ steps = <<>> /\ sessionVads = <<>>
    /\ userdata = "vad-A" /\ vadLoaded = "vad-A"
    /\ jobs = 1
    /\ environ = FullEnviron /\ envChecked = TRUE /\ warnings = <<>>

\* A process whose module is about to load: no job, nothing prewarmed.
Unloaded(envs) ==
    /\ metadata = None /\ engine_api_address = None
    /\ metadata_obj = Unbound /\ agent_name = Unbound /\ agent_id = Unbound /\ run_id = Unbound
    /\ agent_backend_host = "" /\ agent_url = ""
    /\ pc = "idle" /\ exc = ""
    /\ listening = FALSE /\ session = "unbound" /\ waitFuture = "" /\ participant = ""
    /\ joinLog = <<>> /\ tasks = <<>> /\ says = <<>>
    /\ app_url_env = None /\ relays = <<>> /\ posts = <<>>
    /\ steps = <<>> /\ sessionVads = <<>>
    /\ userdata = "unset" /\ vadLoaded = "unset"
    /\ jobs = 0
    /\ environ \in envs /\ envChecked = FALSE /\ warnings = <<>>

InitWith(mds, overrides, appUrls) ==
    /\ metadata \in mds
    /\ engine_api_address \in overrides
    /\ metadata_obj = Unbound /\ agent_name = Unbound /\ agent_id = Unbound /\ run_id = Unbound
    /\ agent_backend_host = "" /\ agent_url = ""
    /\ pc = "start" /\ exc = ""
    /\ listening = FALSE /\ session = "unbound" /\ waitFuture = "" /\ participant = ""
    /\ joinLog = <<>> /\ tasks = <<>> /\ says = <<>>
    /\ app_url_env \in appUrls
    /\ relays = <<>> /\ posts = <<>>
    /\ Loaded

\* One job: entrypoint, the room's join events, the welcome tasks.
Init == InitWith(JobMetadata, JobOverrides, {None})
Next ==
    EntryStart \/ ConnectDone \/ JoinEvent \/ WaitDone \/ StartDone \/ TaskStart \/ Tick
        \/ TaskWake
Spec == Init /\ [][Next]_vars

\* One job under the event loop's scheduling: a created task is run, time passes
\* for a sleeping task, a task whose sleep is over is resumed.
FairSpec == Spec /\ WF_vars(TaskStart) /\ WF_vars(Tick) /\ WF_vars(TaskWake)

\* Module load over every combination of the required variables unset, empty, set.
EnvInit == Unloaded([RequiredEnvSet -> EnvValues])
EnvNext == ValidateEnvs
EnvSpec == EnvInit /\ [][EnvNext]_vars

\* A worker process from module load: validate_envs, prewarm, then its jobs.
ProcInit == Unloaded({FullEnviron, [FullEnviron EXCEPT !["ELEVEN_API_KEY"] = None]})
ProcNext == ValidateEnvs \/ Prewarm \/ JobStart \/ Next
ProcSpec == ProcInit /\ [][ProcNext]_vars

\* The first segment of entrypoint over every metadata and override drawn.
MetaInit == InitWith(AllMetadata, AllOverrides, {None})
MetaNext == EntryStart
MetaSpec == MetaInit /\ [][MetaNext]_vars

\* The transcript relay under a caller outside the file.
RelayInit == InitWith({PyDict(<<>>)}, {None}, AppUrlEnvs)
RelayNext == RelayCall \/ RelayResponse
RelaySpec == RelayInit /\ [][RelayNext]_vars

(***************************************************************************)
(* Properties.                                                             *)
(***************************************************************************)
\* The mapping {"agent_name": "x", "agent_id": "y", "run_id": "z"}.
XYZ ==
    PyDict(<<[k |-> "agent_name", v |-> PyStrVal("x")], [k |-> "agent_id", v |-> PyStrVal("y")],
             [k |-> "run_id", v |-> PyStrVal("z")]>>)

\* C1: for every metadata that is a mapping or a string, entrypoint's metadata
\* handling raises nothing: the job reaches the backend URL resolution and the
\* await of ctx.connect with agent_name, agent_id, run_id bound to a value or None.
C1_MetadataNeverAborts ==
    pc # "start" =>
        /\ pc = "connecting"
        /\ exc = ""
        /\ agent_name # Unbound /\ agent_id # Unbound /\ run_id # Unbound
        /\ agent_url # ""

\* C2: for a string metadata, metadata_obj is the strict parse of the text when that
\* succeeds, else the parse of the text with every ' replaced by " when that
\* succeeds, else the empty mapping; a valid object text and its single-quoted
\* form both give the mapping of their three keys.
C2_TwoStageFallback ==
    (pc # "start" /\ metadata.t = "str") =>
        LET strict == JsonLoads(metadata.v)
            repaired == JsonLoads(Replace(metadata.v, "'", "\""))
        IN  /\ strict.ok => metadata_obj = strict.val
            /\ (~strict.ok /\ repaired.ok) => metadata_obj = repaired.val
            /\ (~strict.ok /\ ~repaired.ok) => metadata_obj = PyDict(<<>>)
            /\ metadata.v = ValidObjectText => metadata_obj = XYZ
            /\ metadata.v = SingleQuotedText => metadata_obj = XYZ
            /\ metadata.v = UnparseableText => metadata_obj = PyDict(<<>>)
            /\ metadata.v = ApostropheText =>
                  metadata_obj = PyDict(<<[k |-> "agent_name", v |-> PyStrVal("o'x")]>>)

C2_Witness ==
    /\ pc = "connecting"
    /\ metadata = PyStrVal(SingleQuotedText)
    /\ ~JsonLoads(metadata.v).ok
    /\ metadata_obj = XYZ

\* str() of an identifier as the claim words it: None is the text "None".
Rendered(val) == IF val = None THEN "None" ELSE PyStr(val)

\* C3: the base is http://localhost:9233 for an absent or empty override, https://
\* + override for an override not starting with https://, the override itself
\* otherwise; the endpoint is base/stream/agents/a/b/c with None as the text
\* "None"; a base from a non-empty override starts with https://.
C3_BackendUrl ==
    pc = "connecting" =>
        LET absent == engine_api_address = None \/ engine_api_address.v = ""
            secure == ~absent /\ Len(engine_api_address.v) >= 8
                              /\ SubSeq(engine_api_address.v, 1, 8) = "https://"
        IN  /\ absent => agent_backend_host = "http://localhost:9233"
            /\ (~absent /\ ~secure) => agent_backend_host = "https://" \o engine_api_address.v
            /\ secure => agent_backend_host = engine_api_address.v
            /\ ~absent => SubSeq(agent_backend_host, 1, 8) = "https://"
            /\ agent_url = agent_backend_host \o "/stream/agents/" \o Rendered(agent_name)
                              \o "/" \o Rendered(agent_id) \o "/" \o Rendered(run_id)
            /\ engine_api_address = PyStrVal("api.example.com")
                  => agent_backend_host = "https://api.example.com"
            /\ (absent /\ metadata_obj = XYZ)
                  => agent_url = "http://localhost:9233/stream/agents/x/y/z"
            /\ (absent /\ metadata_obj = PyDict(<<>>))
                  => agent_url = "http://localhost:9233/stream/agents/None/None/None"

C3_Witness ==
    /\ pc = "connecting"
    /\ engine_api_address = PyStrVal("http://api.example.com")
    /\ agent_backend_host = "https://http://api.example.com"
    /\ agent_name = None
    /\ agent_url = "https://http://api.example.com/stream/agents/None/7/[1]"

\* C4: a join event of "agent-42" or "transcript-listener" schedules no welcome
\* task, and a join event of any other identity schedules exactly one.
C4_ListenerSchedules ==
    \A i \in 1..Len(joinLog) :
        joinLog[i].scheduled =
            IF joinLog[i].identity \in {"agent-42", "transcript-listener"} THEN 0 ELSE 1

\* C5: once the session has started and entrypoint has returned, the first
\* participant was welcomed by entrypoint if and only if its identity neither
\* starts with "agent-" nor is "transcript-listener".
C5_ImmediateWelcome ==
    pc = "done" =>
        ((\E i \in 1..Len(says) : says[i].by = "entrypoint")
            <=> ~(StartsWith(participant, "agent-") \/ participant = "transcript-listener"))

\* C6: the listener is registered only once the session is constructed, and every
\* invocation of the listener finds the session constructed and does not fail.
C6_ListenerAfterSession ==
    /\ listening => session # "unbound"
    /\ \A i \in 1..Len(joinLog) :
          joinLog[i].session # "unbound" /\ joinLog[i].error = ""

\* C7: a job that has handled a participant event and whose entrypoint has
\* returned has invoked send_transcript_to_app.
C7_RelayInvoked ==
    (pc = "done" /\ joinLog # <<>>) => relays # <<>>

\* No state of a job holds an invocation of send_transcript_to_app or a request
\* of it: entrypoint, the listener and the welcome tasks never call it.
NoRelayInJob == relays = <<>> /\ posts = <<>>

\* C8: a failed session.say is not propagated: entrypoint does not end with its
\* error, no welcome task fails, and after a failed immediate welcome entrypoint
\* has returned with the session running.
C8_SayFailureContained ==
    /\ exc # "SayError"
    /\ \A i \in 1..Len(tasks) : tasks[i].state # "failed"
    /\ (\E i \in 1..Len(says) : says[i].by = "entrypoint" /\ says[i].failed)
          => (pc = "done" /\ session = "running")
    /\ Cardinality({i \in 1..Len(says) : says[i].by = "task"})
          = Cardinality({i \in 1..Len(tasks) : tasks[i].state = "done"})

C8_Witness ==
    /\ pc = "done"
    /\ session = "running"
    /\ \E i \in 1..Len(says) : says[i].by = "entrypoint" /\ says[i].failed
    /\ \E i \in 1..Len(says) : says[i].by = "task" /\ says[i].failed
    /\ \E i \in 1..Len(tasks) : tasks[i].state = "done"

\* C9: send_transcript_to_app returns normally whatever client.post ends with.
C9_RelayReturns ==
    \A i \in 1..Len(relays) :
        /\ relays[i].state \in {"posting", "returned"}
        /\ relays[i].outcome # "" => relays[i].state = "returned"

C9_Witness ==
    /\ \E i \in 1..Len(relays) :
          relays[i].outcome = "connect_error" /\ relays[i].state = "returned"
    /\ \E i \in 1..Len(relays) :
          relays[i].outcome = "status_5xx" /\ relays[i].state = "returned"

\* C10: an invocation issues at most one request, a POST to
\* FASTHTML_APP_URL/api/transcript (http://localhost:5001 when unset) with
\* the invocation's speaker and text, and none after a failed request.
C10_AtMostOnePost ==
    /\ \A j \in 1..Len(posts) :
          /\ posts[j].call \in 1..Len(relays)
          /\ posts[j].request =
                [method |-> "POST",
                 url |-> (IF app_url_env = None THEN "http://localhost:5001"
                          ELSE app_url_env.v) \o "/api/transcript",
                 speaker |-> relays[posts[j].call].speaker,
                 text |-> relays[posts[j].call].text]
    /\ \A i \in 1..Len(relays) :
          Cardinality({j \in 1..Len(posts) : posts[j].call = i}) <= 1

C10_Witness ==
    /\ app_url_env = None
    /\ Len(relays) = 2
    /\ relays[1].outcome = "timeout" /\ relays[1].state = "returned"
    /\ relays[2].state = "returned"
    /\ Len(posts) = 2
    /\ posts[1].request.url = "http://localhost:5001/api/transcript"

\* C11: a welcome task makes its session.say request only once the 2 units of its
\* sleep have fully elapsed, and makes it exactly once: none before it is done,
\* one when it is done.
C11_DelayBeforeWelcome ==
    /\ \A i \in 1..Len(tasks) :
          /\ tasks[i].state \in {"created", "sleeping", "done"}
          /\ tasks[i].said = (IF tasks[i].state = "done" THEN 1 ELSE 0)
          /\ tasks[i].said > 0 => tasks[i].elapsed >= 2
          /\ tasks[i].state = "created" => tasks[i].elapsed = 0
    /\ Cardinality({k \in 1..Len(says) : says[k].by = "task"})
          = Cardinality({i \in 1..Len(tasks) : tasks[i].said = 1})

C11_Witness ==
    \E i \in 1..Len(tasks) :
        tasks[i].state = "done" /\ tasks[i].elapsed = 2 /\ tasks[i].said = 1

\* C12: an invocation of the join listener completes in one step of the event
\* loop without any time passing: it changes no earlier task, makes no
\* session.say request, and at most adds one task that has not begun its sleep.
C12_ListenerDoesNotBlock ==
    [][Len(joinLog') > Len(joinLog) =>
          /\ Len(tasks') \in {Len(tasks), Len(tasks) + 1}
          /\ \A i \in 1..Len(tasks) : tasks'[i] = tasks[i]
          /\ \A i \in (Len(tasks) + 1)..Len(tasks') :
                tasks'[i].state = "created" /\ tasks'[i].elapsed = 0 /\ tasks'[i].said = 0
          /\ says' = says]_vars

\* A join dispatched while an earlier welcome task is in its sleep: two tasks pending.
C12_Witness ==
    /\ Len(tasks) >= 2
    /\ tasks[1].state = "sleeping" /\ tasks[1].elapsed = 1
    /\ tasks[2].state = "created" /\ tasks[2].elapsed = 0
    /\ joinLog[Len(joinLog)].scheduled = 1

\* C13: under the event loop's scheduling every welcome task, once scheduled,
\* eventually makes its request or fails on its own, whatever entrypoint has done.
C13_TaskRunsToCompletion ==
    \A i \in 1..MaxJoins :
        (Len(tasks) >= i) ~> (Len(tasks) >= i /\ tasks[i].state \in {"done", "failed"})

\* A task that made its request after entrypoint had returned.
C13_Witness ==
    /\ pc = "done"
    /\ Len(says) >= 2
    /\ says[1].by = "entrypoint"
    /\ says[2].by = "task"
    /\ \E i \in 1..Len(tasks) : tasks[i].state = "done"

\* C14: the process's VAD slot holds what prewarm stored, nothing changes it once
\* it is set, and every session of every job is constructed with that value.
C14_VadSlotImmutable ==
    /\ [](/\ userdata = vadLoaded
          /\ \A i \in 1..Len(sessionVads) :
                sessionVads[i].vad = vadLoaded /\ sessionVads[i].vad \in {"vad-A", "vad-B"})
    /\ [][userdata # "unset" => userdata' = userdata]_vars

C14_Witness ==
    /\ jobs = 2
    /\ userdata = "vad-B"
    /\ Len(sessionVads) = 2
    /\ sessionVads[1] = [job |-> 1, vad |-> "vad-B"]
    /\ sessionVads[2] = [job |-> 2, vad |-> "vad-B"]
    /\ pc = "done"

\* C15: validate_envs returns for every combination of the five required
\* variables, with exactly one warning for each that is unset or empty and none
\* for one that is set.
C15_EnvValidation ==
    envChecked =>
        /\ \A k \in {"LIVEKIT_URL", "LIVEKIT_API_KEY", "LIVEKIT_API_SECRET",
                     "DEEPGRAM_API_KEY", "ELEVEN_API_KEY"} :
              Cardinality({i \in 1..Len(warnings) : warnings[i] = k})
                 = (IF environ[k] = None \/ environ[k] = PyStrVal("") THEN 1 ELSE 0)
        /\ Len(warnings) <= 5

C15_Witness ==
    /\ envChecked
    /\ environ["LIVEKIT_URL"] = PyStrVal("")
    /\ environ["LIVEKIT_API_KEY"] = PyStrVal("value")
    /\ environ["ELEVEN_API_KEY"] = None
    /\ warnings = <<"LIVEKIT_URL", "ELEVEN_API_KEY">>

\* The order of entrypoint's steps.
StepOrder == <<"connect_audio_only", "participant", "construct", "start", "welcome_decision">>

\* C16: entrypoint's steps occur in the order connect (audio only), first
\* participant present, agent and session constructed, session started, welcome
\* decision; the session is not started before a participant is present and is
\* started at most once in a job.
C16_StepOrder ==
    /\ Len(steps) <= Len(StepOrder)
    /\ steps = SubSeq(StepOrder, 1, Len(steps))
    /\ (\E k \in 1..Len(steps) : steps[k] = "participant")
          => participant \in {"agent-42", "transcript-listener", "user-1"}
    /\ pc \in {"starting", "done"} => participant # ""
    /\ session # "unbound" => participant # ""
    /\ Cardinality({k \in 1..Len(steps) : steps[k] = "start"}) <= 1
    /\ pc = "done" => steps = StepOrder

C16_Witness ==
    /\ pc = "done"
    /\ steps = StepOrder
    /\ Len(joinLog) >= 1
    /\ joinLog[1].first
    /\ participant = "user-1"

\* C17: every session.say request is made on a session whose start has completed.
C17_SayAfterStart ==
    \A k \in 1..Len(says) : says[k].session = "running"

\* C18: the join that gave entrypoint its first participant never has both the
\* immediate welcome of entrypoint and a delayed welcome task of its own.
C18_NoDoubleWelcome ==
    \A i \in 1..Len(joinLog) :
        joinLog[i].first =>
            ~(/\ joinLog[i].scheduled > 0
              /\ \E k \in 1..Len(says) : says[k].by = "entrypoint")

C18_Witness ==
    /\ pc = "done"
    /\ Len(joinLog) >= 1
    /\ joinLog[1].first
    /\ joinLog[1].identity = "user-1"
    /\ joinLog[1].scheduled = 0
    /\ tasks = <<>>
    /\ \E k \in 1..Len(says) : says[k].by = "entrypoint"

====
